---- MODULE Spec2Model ----
(***************************************************************************)
(* A model of the phishing-URL detector: the Flask handler index() of      *)
(* src/app.py and the FeatureExtraction class of src/feature.py.           *)
(*                                                                         *)
(* URLs, attribute values, page text and resolved addresses are TLA+       *)
(* strings; the string operators below (find, in, count, lower) are the    *)
(* Python operations the source applies to them.  External services (DNS,  *)
(* HTTP, WHOIS, the rank and index services, the pickled classifier) are   *)
(* the environment: every call draws its reply from a small set.           *)
(***************************************************************************)
EXTENDS Integers, Sequences, FiniteSets, TLC

VARIABLES
    pc,             \* position of the request inside index() / __init__
    raw,            \* request.form["url"] as submitted
    url,            \* url after validate_url; FeatureExtraction.url
    website_info,   \* dict returned by fetch_url_details
    response,       \* FeatureExtraction.response (requests.Response or None)
    soup,           \* FeatureExtraction.soup (parsed DOM or None)
    urlparse_obj,   \* FeatureExtraction.urlparse_obj (or None)
    domain,         \* FeatureExtraction.domain
    whois_response, \* FeatureExtraction.whois_response (or None)
    features,       \* FeatureExtraction.features
    lastCall,       \* the external call made last and what the service did
    frame,          \* locals of index(): features_df, prediction, proba
    rendered        \* the context handed to render_template (the response)

vars == <<pc, raw, url, website_info, response, soup, urlparse_obj, domain,
          whois_response, features, lastCall, frame, rendered>>

\* Python's None, and a value that may be None instead
None == [none |-> TRUE]
Some(v) == [some |-> v]

(***************************************************************************)
(* Python string operations.  Positions are 1-based here; Find returns 0   *)
(* where str.find returns -1.                                              *)
(***************************************************************************)
\* s[i-1:j], clipped to the string as Python clips a slice
Slice(s, i, j) ==
    LET lo == IF i < 1 THEN 1 ELSE i
        hi == IF j > Len(s) THEN Len(s) ELSE j
    IN  IF lo > hi THEN "" ELSE SubSeq(s, lo, hi)

CharAt(s, i) == Slice(s, i, i)

\* sub in s
Contains(s, sub) ==
    \E i \in 1..(Len(s) - Len(sub) + 1) : SubSeq(s, i, i + Len(sub) - 1) = sub

\* s.find(sub, start): the least position >= start where sub occurs, else 0
Find(s, sub, start) ==
    LET hits == {i \in start..(Len(s) - Len(sub) + 1) :
                    SubSeq(s, i, i + Len(sub) - 1) = sub}
    IN  IF hits = {} THEN 0 ELSE CHOOSE i \in hits : \A j \in hits : i <= j

\* s.count(sub) for a one-character sub
CountChar(s, c) == Cardinality({i \in 1..Len(s) : CharAt(s, i) = c})

\* len(re.findall(sub, s)) for a literal pattern: non-overlapping matches
RECURSIVE CountFrom(_, _, _)
CountFrom(s, sub, start) ==
    LET i == Find(s, sub, start)
    IN  IF i = 0 THEN 0 ELSE 1 + CountFrom(s, sub, i + Len(sub))

Digits == {"0", "1", "2", "3", "4", "5", "6", "7", "8", "9"}
LowerLetters == <<"a", "b", "c", "d", "e", "f", "g", "h", "i", "j", "k", "l", "m",
                  "n", "o", "p", "q", "r", "s", "t", "u", "v", "w", "x", "y", "z">>
UpperLetters == <<"A", "B", "C", "D", "E", "F", "G", "H", "I", "J", "K", "L", "M",
                  "N", "O", "P", "Q", "R", "S", "T", "U", "V", "W", "X", "Y", "Z">>
Range(f) == {f[i] : i \in DOMAIN f}
IsAlpha(c) == c \in Range(LowerLetters) \cup Range(UpperLetters)

LowerChar(c) ==
    IF c \in Range(UpperLetters)
    THEN LowerLetters[CHOOSE i \in DOMAIN UpperLetters : UpperLetters[i] = c]
    ELSE c

\* s.lower()
RECURSIVE Lower(_)
Lower(s) == IF s = "" THEN "" ELSE LowerChar(CharAt(s, 1)) \o Lower(Slice(s, 2, Len(s)))

DigitValue(c) ==
    CASE c = "0" -> 0 [] c = "1" -> 1 [] c = "2" -> 2 [] c = "3" -> 3 [] c = "4" -> 4
      [] c = "5" -> 5 [] c = "6" -> 6 [] c = "7" -> 7 [] c = "8" -> 8 [] c = "9" -> 9

(***************************************************************************)
(* urllib.parse.urlparse, as far as the source reads its result: .scheme   *)
(* and .netloc.  urlsplit takes the text before the first ":" as the       *)
(* scheme when it starts with a letter and holds only scheme characters,   *)
(* and the text between a leading "//" and the next "/", "?" or "#" as the *)
(* netloc; an unbalanced "[" or "]" in the netloc raises ValueError.       *)
(***************************************************************************)
SchemeChars == Range(LowerLetters) \cup Range(UpperLetters) \cup Digits \cup {"+", "-", "."}

SchemeEnd(u) ==
    LET i == Find(u, ":", 1)
    IN  IF /\ i > 1
           /\ IsAlpha(CharAt(u, 1))
           /\ \A k \in 1..(i - 1) : CharAt(u, k) \in SchemeChars
        THEN i ELSE 0

SplitScheme(u) ==
    LET i == SchemeEnd(u)
    IN  IF i = 0 THEN [scheme |-> "", rest |-> u]
        ELSE [scheme |-> Lower(Slice(u, 1, i - 1)), rest |-> Slice(u, i + 1, Len(u))]

\* _splitnetloc(rest, 2): up to the first of "/", "?", "#"
SplitNetloc(rest) ==
    IF Slice(rest, 1, 2) # "//" THEN ""
    ELSE LET stops == {i \in 3..Len(rest) : CharAt(rest, i) \in {"/", "?", "#"}}
             delim == IF stops = {} THEN Len(rest) + 1
                      ELSE CHOOSE i \in stops : \A j \in stops : i <= j
         IN  Slice(rest, 3, delim - 1)

UrlparseRaises(u) ==
    LET n == SplitNetloc(SplitScheme(u).rest)
    IN  Contains(n, "[") # Contains(n, "]")

urlparse(u) ==
    LET sp == SplitScheme(u)
    IN  [scheme |-> sp.scheme, netloc |-> SplitNetloc(sp.rest)]

(***************************************************************************)
(* validate_url (src/app.py): prefix "http://" when urlparse finds no      *)
(* scheme.  The caller must check UrlparseRaises first: there the function *)
(* raises ValueError and returns nothing.                                  *)
(***************************************************************************)
validate_url(u) == IF urlparse(u).scheme = "" THEN "http://" \o u ELSE u

(***************************************************************************)
(* socket.inet_aton: TRUE when the C library accepts the whole string as   *)
(* an IPv4 address (one to four dot-separated numbers, the last one        *)
(* filling the remaining bytes), FALSE when it raises OSError.  Numbers    *)
(* are decimal, or octal with a leading 0; the hexadecimal form and the    *)
(* trailing-whitespace form are not modelled, and no input of the model    *)
(* holds one.                                                              *)
(***************************************************************************)
RECURSIVE SplitDots(_)
SplitDots(s) ==
    LET i == Find(s, ".", 1)
    IN  IF i = 0 THEN <<s>>
        ELSE <<Slice(s, 1, i - 1)>> \o SplitDots(Slice(s, i + 1, Len(s)))

RECURSIVE NumberValue(_, _)
NumberValue(s, base) ==
    IF s = "" THEN 0
    ELSE NumberValue(Slice(s, 1, Len(s) - 1), base) * base + DigitValue(CharAt(s, Len(s)))

IsNumber(s) ==
    /\ s # ""
    /\ Len(s) <= 10
    /\ \A k \in 1..Len(s) : CharAt(s, k) \in Digits
    /\ (Len(s) > 1 /\ CharAt(s, 1) = "0") =>
           \A k \in 1..Len(s) : CharAt(s, k) \notin {"8", "9"}

\* The number a part denotes.  A ten-digit decimal part is at least 10^9:
\* it is cut to the largest 32-bit signed value, which every byte limit
\* below rejects just as its true value would be.
PartValue(s) ==
    IF Len(s) > 1 /\ CharAt(s, 1) = "0" THEN NumberValue(s, 8)
    ELSE IF Len(s) = 10 THEN 2147483647
    ELSE NumberValue(s, 10)

\* a ten-digit decimal numeral is at most 4294967295
Fits32(s) ==
    LET hi == NumberValue(Slice(s, 1, 5), 10)
        lo == NumberValue(Slice(s, 6, 10), 10)
    IN  hi < 42949 \/ (hi = 42949 /\ lo <= 67295)

RECURSIVE Pow256(_)
Pow256(n) == IF n = 0 THEN 1 ELSE 256 * Pow256(n - 1)

LastPartFits(s, n) ==
    IF n = 1
    THEN (Len(s) = 10 /\ CharAt(s, 1) # "0") => Fits32(s)
    ELSE PartValue(s) < Pow256(5 - n)

inet_aton(s) ==
    LET parts == SplitDots(s)
        n == Len(parts)
    IN  /\ n <= 4
        /\ \A k \in 1..n : IsNumber(parts[k])
        /\ \A k \in 1..(n - 1) : PartValue(parts[k]) <= 255
        /\ LastPartFits(parts[n], n)

(***************************************************************************)
(* Pages.  The body of an HTTP response is a sequence of elements; its     *)
(* text (requests' response.text) is their HTML rendering, and the DOM     *)
(* (BeautifulSoup(response.text)) is the sequence itself.  An element has  *)
(* a tag, at most one attribute, inner text, and a flag telling whether it *)
(* stands inside <head>.                                                   *)
(***************************************************************************)
El(tag, attr, val, inner, head) ==
    [tag |-> tag, attr |-> attr, val |-> val, inner |-> inner, head |-> head]

Favicon_own  == El("link", "href", "http://example.com/favicon.ico", "", TRUE)
Img_own      == El("img", "src", "http://example.com/logo.png", "", FALSE)
Img_other    == El("img", "src", "http://cdn.test/banner.png", "", FALSE)
Iframe_other == El("iframe", "src", "http://ads.test/frame", "", FALSE)
A_own        == El("a", "href", "http://example.com/about", "About", FALSE)
A_hash       == El("a", "href", "#", "Top", FALSE)
A_other      == El("a", "href", "http://cdn.test/out", "Out", FALSE)
Script_own   == El("script", "src", "http://example.com/app.js", "", FALSE)
Script_other == El("script", "src", "http://cdn.test/lib.js", "", TRUE)
Script_inline ==
    El("script", "", "", "a.onmouseover=f;if(event.button==2){alert(1)}", FALSE)
Form_blank   == El("form", "action", "about:blank", "", FALSE)
Form_other   == El("form", "action", "http://cdn.test/post", "", FALSE)
Form_own     == El("form", "action", "http://example.com/post", "", FALSE)
P_mail       == El("p", "", "", "mailto:admin@example.com", FALSE)

RenderEl(e) ==
    "<" \o e.tag
        \o (IF e.attr = "" THEN "" ELSE " " \o e.attr \o "=\"" \o e.val \o "\"")
        \o ">" \o e.inner \o "</" \o e.tag \o ">"

RECURSIVE RenderAll(_)
RenderAll(els) == IF els = <<>> THEN "" ELSE RenderEl(Head(els)) \o RenderAll(Tail(els))

\* response.text
Text(r) == RenderAll(r.html)

\* soup.text: the inner text of the elements that are not scripts
RECURSIVE InnerText(_)
InnerText(els) ==
    IF els = <<>> THEN ""
    ELSE (IF Head(els).tag = "script" THEN "" ELSE Head(els).inner) \o InnerText(Tail(els))

\* soup.find_all(tag, attr=True) for tag in tags, in document order per tag
FindAll(els, tags, attr) ==
    SelectSeq(els, LAMBDA e : e.tag \in tags /\ e.attr = attr)

\* the elements inside <head>; soup.find("head") is None when there are none
HeadOf(els) == SelectSeq(els, LAMBDA e : e.head)

(***************************************************************************)
(* WHOIS records (python-whois WhoisEntry): creation_date and              *)
(* expiration_date are a date, a list of dates, or None; text is str() of  *)
(* the record.  A date is [year, month].                                   *)
(***************************************************************************)
Date(y, m) == [year |-> y, month |-> m]
DateList(ds) == [list |-> ds]
IsList(d) == "list" \in DOMAIN d

\* date.today()
Today == Date(2026, 11)

\* d.year / d.month raise AttributeError on None
HasYearMonth(d) == "year" \in DOMAIN d

\* "if isinstance(d, list): d = d[0]"; Unusable stands for the IndexError of []
Unusable == [unusable |-> TRUE]
FirstIfList(d) == IF IsList(d) THEN (IF d.list = <<>> THEN Unusable ELSE d.list[1]) ELSE d

MonthsBetween(a, b) == (b.year - a.year) * 12 + (b.month - a.month)

(***************************************************************************)
(* FeatureExtraction's indicators (src/feature.py).  Each reads the fields *)
(* of the object as __init__ left them; the four that call an external     *)
(* service take the service's reply as a parameter.                        *)
(***************************************************************************)
\* truth value of self.response: requests.Response.__bool__ is Response.ok
Truthy(r) == r # None /\ r.ok

\* "self.url in v or self.domain in v"
OwnSite(v) == Contains(v, url) \/ Contains(v, domain)

\* the slip of sending a zero total down the failure path
PctBelow_zero_fails(n, total, t) == total # 0 /\ n * 100 < t * total

\* "n / total * 100 < t", for the totals of the model (no total is a
\* multiple of 50, so no quotient lands on a threshold and rounds)
PctBelow(n, total, t) == (IF total = 0 THEN 0 ELSE n * 100) < t * (IF total = 0 THEN 1 ELSE total)

\* 1. Using IP address in URL
UsingIp == IF inet_aton(url) THEN -1 ELSE 1

\* the slip of putting length 60 on the short side
longUrl_inclusive ==
    IF Len(url) <= 60 THEN 1
    ELSE IF Len(url) <= 100 THEN 0
    ELSE -1

\* 2. Long URL
longUrl ==
    IF Len(url) < 60 THEN 1
    ELSE IF 60 <= Len(url) /\ Len(url) <= 100 THEN 0
    ELSE -1

\* 3. Short URL
shortUrl ==
    IF \E pat \in {"bit.ly", "goo.gl", "shorte.st", "tinyurl"} : Contains(url, pat)
    THEN -1 ELSE 1

\* 4. Symbol '@' in URL
symbol == IF Contains(url, "@") THEN -1 ELSE 1

\* 5. Double slashes after the protocol
redirecting ==
    LET pos == IF Contains(url, "://")
               THEN Find(url, "//", Find(url, "://", 1) + 3)
               ELSE 0
    IN  IF pos # 0 THEN -1 ELSE 1

\* 6. Hyphen in the domain
prefixSuffix == IF Contains(domain, "-") THEN -1 ELSE 1

\* 7. Count of subdomains
SubDomains ==
    LET dot_count == CountChar(domain, ".")
    IN  IF dot_count = 1 THEN 1 ELSE IF dot_count = 2 THEN 0 ELSE -1

\* 8. Check for HTTPS
Https == IF urlparse_obj # None /\ Lower(urlparse_obj.scheme) = "https" THEN 1 ELSE -1

\* 9. Domain registration length
DomainRegLen ==
    IF whois_response = None THEN -1
    ELSE LET expiration_date == FirstIfList(whois_response.expiration_date)
             creation_date == FirstIfList(whois_response.creation_date)
         IN  IF ~(HasYearMonth(expiration_date) /\ HasYearMonth(creation_date))
             THEN -1                                          \* except Exception
             ELSE IF MonthsBetween(creation_date, expiration_date) >= 12 THEN 1 ELSE -1

\* 10. Favicon
Favicon ==
    IF soup = None THEN -1
    ELSE IF \E i \in DOMAIN FindAll(HeadOf(soup.some), {"link"}, "href") :
                OwnSite(FindAll(HeadOf(soup.some), {"link"}, "href")[i].val)
         THEN 1 ELSE -1

\* 11. Non-standard port usage
NonStdPort == IF Contains(domain, ":") THEN -1 ELSE 1

\* 12. HTTPS in the domain part of the URL
HTTPSDomainURL == IF Contains(Lower(domain), "https") THEN -1 ELSE 1

\* 13. Request URL
RequestURL ==
    IF soup = None THEN -1
    ELSE LET els == FindAll(soup.some, {"img", "audio", "embed", "iframe"}, "src")
             total == Len(els)
             valid == Len(SelectSeq(els, LAMBDA e : OwnSite(e.val)))
         IN  IF PctBelow(valid, total, 22) THEN 1
             ELSE IF PctBelow(valid, total, 61) THEN 0
             ELSE -1

\* 14. Anchor URL
UnsafeHref(href) ==
    \/ Contains(href, "#")
    \/ Contains(Lower(href), "javascript")
    \/ Contains(Lower(href), "mailto")
    \/ (~Contains(href, url) /\ ~Contains(href, domain))

AnchorURL ==
    IF soup = None THEN -1
    ELSE LET els == FindAll(soup.some, {"a"}, "href")
             total == Len(els)
             unsafe == Len(SelectSeq(els, LAMBDA e : UnsafeHref(e.val)))
         IN  IF PctBelow(unsafe, total, 31) THEN 1
             ELSE IF PctBelow(unsafe, total, 67) THEN 0
             ELSE -1

\* 15. Links in script or link tags
LinksInScriptTags ==
    IF soup = None THEN -1
    ELSE LET els == FindAll(soup.some, {"link", "script"}, "src")
             total == Len(els)
             valid == Len(SelectSeq(els, LAMBDA e : OwnSite(e.val)))
         IN  IF PctBelow(valid, total, 17) THEN 1
             ELSE IF PctBelow(valid, total, 81) THEN 0
             ELSE -1

\* 16. Server form handler: the first form with an action decides
ServerFormHandler ==
    IF soup = None THEN -1
    ELSE LET forms == FindAll(soup.some, {"form"}, "action")
         IN  IF forms = <<>> THEN 1
             ELSE LET action == forms[1].val
                  IN  IF action = "" \/ action = "about:blank" THEN -1
                      ELSE IF ~Contains(action, url) /\ ~Contains(action, domain) THEN 0
                      ELSE 1

\* 17. Info email
InfoEmail == IF soup # None /\ Contains(InnerText(soup.some), "mailto:") THEN -1 ELSE 1

\* 18. Abnormal URL
AbnormalURL ==
    IF /\ Truthy(response)
       /\ whois_response # None
       /\ Contains(whois_response.text, Text(response))
    THEN 1 ELSE -1

\* the slip of returning the redirect count itself
WebsiteForwarding_count == IF Truthy(response) THEN response.history ELSE -1

\* 19. Website forwarding
WebsiteForwarding ==
    IF Truthy(response) /\ response.history <= 1 THEN 1
    ELSE IF Truthy(response) /\ response.history <= 4 THEN 0
    ELSE -1

\* r"<script>.+onmouseover.+</script>": "<script>", at least one character,
\* "onmouseover", at least one character, "</script>" (the text has no newline)
MatchesScriptMouseover(t) ==
    \E i \in 1..Len(t) :
        /\ Slice(t, i, i + 7) = "<script>"
        /\ \E j \in (i + 9)..Len(t) :
              /\ Slice(t, j, j + 10) = "onmouseover"
              /\ Find(t, "</script>", j + 12) # 0

\* 20. Status bar customization
StatusBarCust == IF Truthy(response) /\ MatchesScriptMouseover(Text(response)) THEN 1 ELSE -1

\* 21. Disable right click: r"event.button\s*==\s*2", for text without spaces
\* around "==" and with a literal "."
DisableRightClick ==
    IF Truthy(response) /\ Contains(Text(response), "event.button==2") THEN 1 ELSE -1

\* 22. Using popup window
UsingPopupWindow == IF Truthy(response) /\ Contains(Text(response), "alert(") THEN 1 ELSE -1

\* 23. Iframe redirection
IframeRedirection ==
    IF /\ Truthy(response)
       /\ (Contains(Text(response), "<iframe") \/ Contains(Text(response), "<frameBorder"))
    THEN 1 ELSE -1

\* 24. Age of domain
AgeofDomain ==
    IF whois_response = None THEN -1
    ELSE LET creation_date == FirstIfList(whois_response.creation_date)
         IN  IF ~HasYearMonth(creation_date) THEN -1          \* except Exception
             ELSE IF MonthsBetween(creation_date, Today) >= 6 THEN 1 ELSE -1

\* 25. DNS recording
DNSRecording == AgeofDomain

\* 26. Website traffic: the reply is the XML of the rank service
WebsiteTraffic(reply) ==
    IF reply.kind # "ok" THEN -1                              \* except Exception
    ELSE IF reply.rank = None THEN -1                         \* no REACH/RANK
    ELSE IF reply.rank.some < 100000 THEN 1 ELSE 0

\* 27. Page rank: the reply holds the number after "Global Rank:", if any
PageRank(reply) ==
    IF reply.kind # "ok" THEN -1                              \* except Exception
    ELSE IF reply.rank # None /\ 0 < reply.rank.some /\ reply.rank.some < 100000 THEN 1
    ELSE -1

\* 28. Google index: the reply holds the number of search results
GoogleIndex(reply) ==
    IF reply.kind # "ok" THEN 1                               \* except Exception
    ELSE IF reply.results > 0 THEN 1 ELSE -1

\* 29. Links pointing to the page: re.findall(r"<a\s+href=", text); the
\* rendering writes one space and lower case
LinksPointingToPage ==
    IF Truthy(response)
    THEN LET count == CountFrom(Text(response), "<a href=", 1)
         IN  IF count = 0 THEN 1 ELSE IF count <= 2 THEN 0 ELSE -1
    ELSE -1

\* 30. Stats report: the reply is socket.gethostbyname(self.domain)
BadUrlPatterns ==
    {"at.ua", "usa.cc", "baltazarpresentes.com.br", "pe.hu", "esy.es", "hol.es",
     "sweddy.com", "myjino.ru", "96.lt", "ow.ly"}
BadAddresses ==
    {"146.112.61.108", "213.174.157.151", "121.50.168.88", "192.185.217.116",
     "78.46.211.158", "181.174.165.13", "46.242.145.103", "121.50.168.40",
     "83.125.22.219", "46.242.145.98", "107.151.148.44", "107.151.148.107"}

\* the slip of leaving the resolved address out of the match
StatsReport_url_only(reply) ==
    LET url_match == \E pat \in BadUrlPatterns : Contains(url, pat)
    IN  IF reply.kind # "ok" THEN 1
        ELSE IF url_match THEN -1 ELSE 1

\* the slip of reporting a failed lookup as a match
StatsReport_failed_is_match(reply) ==
    LET url_match == \E pat \in BadUrlPatterns : Contains(url, pat)
    IN  IF reply.kind # "ok" THEN -1
        ELSE LET ip_match == \E pat \in BadAddresses : Contains(reply.ip, pat)
             IN  IF url_match \/ ip_match THEN -1 ELSE 1

StatsReport(reply) ==
    LET url_match == \E pat \in BadUrlPatterns : Contains(url, pat)
    IN  IF reply.kind # "ok" THEN 1                           \* except Exception
        ELSE LET ip_match == \E pat \in BadAddresses : Contains(reply.ip, pat)
             IN  IF url_match \/ ip_match THEN -1 ELSE 1

(***************************************************************************)
(* The order in which __init__ appends the indicators, and the column      *)
(* names index() gives the classifier's input frame.                       *)
(***************************************************************************)
\* the slip of appending Https before SubDomains
FeatureOrder_swapped ==
    <<"UsingIp", "longUrl", "shortUrl", "symbol", "redirecting", "prefixSuffix",
      "Https", "SubDomains", "DomainRegLen", "Favicon", "NonStdPort",
      "HTTPSDomainURL", "RequestURL", "AnchorURL", "LinksInScriptTags",
      "ServerFormHandler", "InfoEmail", "AbnormalURL", "WebsiteForwarding",
      "StatusBarCust", "DisableRightClick", "UsingPopupWindow",
      "IframeRedirection", "AgeofDomain", "DNSRecording", "WebsiteTraffic",
      "PageRank", "GoogleIndex", "LinksPointingToPage", "StatsReport">>

FeatureOrder ==
    <<"UsingIp", "longUrl", "shortUrl", "symbol", "redirecting", "prefixSuffix",
      "SubDomains", "Https", "DomainRegLen", "Favicon", "NonStdPort",
      "HTTPSDomainURL", "RequestURL", "AnchorURL", "LinksInScriptTags",
      "ServerFormHandler", "InfoEmail", "AbnormalURL", "WebsiteForwarding",
      "StatusBarCust", "DisableRightClick", "UsingPopupWindow",
      "IframeRedirection", "AgeofDomain", "DNSRecording", "WebsiteTraffic",
      "PageRank", "GoogleIndex", "LinksPointingToPage", "StatsReport">>

column_names ==
    <<"Index", "UsingIP", "LongURL", "ShortURL", "Symbol@", "Redirecting//",
      "PrefixSuffix-", "SubDomains", "HTTPS", "DomainRegLen", "Favicon",
      "NonStdPort", "HTTPSDomainURL", "RequestURL", "AnchorURL",
      "LinksInScriptTags", "ServerFormHandler", "InfoEmail", "AbnormalURL",
      "WebsiteForwarding", "StatusBarCust", "DisableRightClick",
      "UsingPopupWindow", "IframeRedirection", "AgeofDomain", "DNSRecording",
      "WebsiteTraffic", "PageRank", "GoogleIndex", "LinksPointingToPage",
      "StatsReport">>

\* the indicators that call an external service when they are computed
RemoteIndicators == {"WebsiteTraffic", "PageRank", "GoogleIndex", "StatsReport"}

\* self.<name>() for an indicator that reads only the object's fields
Local(name) ==
    CASE name = "UsingIp" -> UsingIp
      [] name = "longUrl" -> longUrl
      [] name = "shortUrl" -> shortUrl
      [] name = "symbol" -> symbol
      [] name = "redirecting" -> redirecting
      [] name = "prefixSuffix" -> prefixSuffix
      [] name = "SubDomains" -> SubDomains
      [] name = "Https" -> Https
      [] name = "DomainRegLen" -> DomainRegLen
      [] name = "Favicon" -> Favicon
      [] name = "NonStdPort" -> NonStdPort
      [] name = "HTTPSDomainURL" -> HTTPSDomainURL
      [] name = "RequestURL" -> RequestURL
      [] name = "AnchorURL" -> AnchorURL
      [] name = "LinksInScriptTags" -> LinksInScriptTags
      [] name = "ServerFormHandler" -> ServerFormHandler
      [] name = "InfoEmail" -> InfoEmail
      [] name = "AbnormalURL" -> AbnormalURL
      [] name = "WebsiteForwarding" -> WebsiteForwarding
      [] name = "StatusBarCust" -> StatusBarCust
      [] name = "DisableRightClick" -> DisableRightClick
      [] name = "UsingPopupWindow" -> UsingPopupWindow
      [] name = "IframeRedirection" -> IframeRedirection
      [] name = "AgeofDomain" -> AgeofDomain
      [] name = "DNSRecording" -> DNSRecording
      [] name = "LinksPointingToPage" -> LinksPointingToPage

(***************************************************************************)
(* The environment.  A reply is what a service did with one call: "ok"     *)
(* with its payload, "error" (the call raised: refused, unresolvable, bad  *)
(* payload), or "silent" (the service never answers).                      *)
(*                                                                         *)
(* HasTimeout tells, for the calls made through requests and urllib, whose *)
(* default is to wait without limit, whether the call site passes a        *)
(* timeout.  A silent service then raises requests.Timeout at a call with  *)
(* a timeout and blocks the request for good at a call without one.  The   *)
(* resolver, the whois client and the search client bound their own waits  *)
(* outside this repository: their calls get the replies "ok" and "error"   *)
(* only.                                                                   *)
(***************************************************************************)
Ok(payload) == [kind |-> "ok"] @@ payload
Error == [kind |-> "error"]
Silent == [kind |-> "silent"]

HasTimeout ==
    [geo      |-> FALSE,    \* requests.get(ip_api_url)
     http     |-> TRUE,     \* requests.get(url, timeout=10)
     traffic  |-> FALSE,    \* urllib.request.urlopen(url_)
     pagerank |-> TRUE]     \* requests.post(..., timeout=10)

\* the call never returns: the request stays blocked in it
Blocks(call, reply) == reply.kind = "silent" /\ ~HasTimeout[call]

(***************************************************************************)
(* Inputs and replies of the model.                                        *)
(***************************************************************************)
SubmittedUrls ==
    {"example.com/login",          \* no scheme
     "http://1.2.3.4/login",       \* the host is an IPv4 literal
     "https://foo.esy.es/a-b",     \* matches a blacklisted pattern
     "[bad",                       \* urlparse raises once "http://" is added
     "http://[bad"}                \* urlparse raises in validate_url

Page_empty == <<>>
Page_login == <<Favicon_own, Img_own, A_own, Form_own>>
Page_lure  == <<Script_other, Script_inline, Iframe_other, A_hash, A_other, A_own,
                Form_blank, P_mail>>
Page_gone  == <<P_mail>>

Resp(ok, history, html) == [ok |-> ok, history |-> history, html |-> html]

SampleResponses ==
    {Resp(TRUE, 0, Page_empty), Resp(TRUE, 2, Page_login),
     Resp(TRUE, 5, Page_lure), Resp(FALSE, 0, Page_gone)}

Whois(creation, expiration, text) ==
    [creation_date |-> creation, expiration_date |-> expiration, text |-> text]

SampleWhois ==
    {Whois(Date(1995, 8), Date(2027, 8), "domain_name: EXAMPLE.COM"),
     Whois(Date(2026, 9), Date(2027, 3), "domain_name: FOO.ESY.ES"),
     Whois(DateList(<<Date(2020, 1), Date(2021, 6)>>),
           DateList(<<Date(2030, 1)>>), "domain_name: EXAMPLE.COM"),
     Whois(None, None, "")}

GoodAddress == "93.184.216.34"
ListedAddress == "146.112.61.108"

DetailsDnsReplies   == {Ok([ip |-> GoodAddress]), Error}
GeoReplies          == {Ok([location |-> "US, Norwell", isp |-> "Edgecast"]), Error, Silent}
DetailsWhoisReplies == {Ok([asn |-> "AS15133"]), Error}
HttpReplies ==
    {Ok([response |-> r, parses |-> TRUE]) : r \in SampleResponses}
        \cup {Ok([response |-> Resp(TRUE, 0, Page_login), parses |-> FALSE]), Error, Silent}
WhoisReplies        == {Ok([record |-> w]) : w \in SampleWhois} \cup {Error}
TrafficReplies      == {Ok([rank |-> Some(5000)]), Ok([rank |-> Some(250000)]), Ok([rank |-> None]),
                        Error, Silent}
PageRankReplies     == {Ok([rank |-> Some(5000)]), Ok([rank |-> Some(250000)]), Ok([rank |-> None]),
                        Error, Silent}
GoogleReplies       == {Ok([results |-> 5]), Ok([results |-> 0]), Error}
StatsDnsReplies     == {Ok([ip |-> GoodAddress]), Ok([ip |-> ListedAddress]), Error}
\* gbc.predict: the label; gbc.predict_proba: proba[1], in thousandths
PredictReplies      == {Ok([label |-> 1]), Ok([label |-> -1]), Error}
ProbaReplies        == {Ok([p |-> 37]), Ok([p |-> 984]), Error}

(***************************************************************************)
(* The request: index() of src/app.py, with fetch_url_details and          *)
(* FeatureExtraction.__init__ unfolded into their steps.                   *)
(***************************************************************************)
\* xx = -1, the value the template gets when there is no score; xx is kept
\* in hundredths
NoScore == -100

\* round(pro_non_phishing, 2): thousandths to hundredths (no reply of the
\* model ends in 5, where float rounding decides)
Round2(p) == (p + 5) \div 10

Template(xx, prediction, error, info, offline) ==
    [kind |-> "page", xx |-> xx, prediction |-> prediction, error |-> error,
     website_info |-> info, is_offline |-> offline]

\* the slip of answering a classifier failure with a neutral score
ErrorPage_neutral(info) == Template(50, Some(1), None, info, FALSE)

\* except Exception as e: render_template(..., xx=-1, error=error_msg, ...)
ErrorPage(info) == Template(NoScore, None, Some("Error occurred"), info, FALSE)

\* an exception that leaves index(): Flask answers 500
ServerError == [kind |-> "server_error"]

Info(status, ip, location, asn) ==
    [status |-> status, ip_address |-> ip, location |-> location, asn |-> asn]

Init ==
    /\ pc = "idle"
    /\ raw = None
    /\ url = None
    /\ website_info = None
    /\ response = None
    /\ soup = None
    /\ urlparse_obj = None
    /\ domain = ""
    /\ whois_response = None
    /\ features = <<>>
    /\ lastCall = None
    /\ frame = None
    /\ rendered = None

\* GET /: render_template("index.html", xx=-1)
Get ==
    /\ pc = "idle"
    /\ pc' = "responded"
    /\ rendered' = Template(NoScore, None, None, None, FALSE)
    /\ UNCHANGED <<raw, url, website_info, response, soup, urlparse_obj, domain,
                   whois_response, features, lastCall, frame>>

\* url = validate_url(u) for a submitted u; a ValueError of urlparse leaves
\* index() and Flask answers 500
Submit(urls, next) ==
    /\ pc = "idle"
    /\ \E u \in urls :
          /\ raw' = u
          /\ IF UrlparseRaises(u)
             THEN /\ pc' = "responded"
                  /\ rendered' = ServerError
                  /\ url' = url
             ELSE /\ pc' = next
                  /\ url' = validate_url(u)
                  /\ rendered' = rendered
    /\ UNCHANGED <<website_info, response, soup, urlparse_obj, domain,
                   whois_response, features, lastCall, frame>>

\* POST /: url = validate_url(request.form.get("url", ""))
Post == Submit(SubmittedUrls, "details")

\* the slip of answering at once, unscored, when the domain does not resolve
DetailsResolve_abort ==
    /\ pc = "details"
    /\ \E reply \in DetailsDnsReplies :
          /\ lastCall' = [call |-> "details_dns", reply |-> reply]
          /\ IF reply.kind = "ok"
             THEN /\ website_info' = Info("resolving", reply.ip, "Unavailable", "Unavailable")
                  /\ pc' = "details_geo"
                  /\ rendered' = rendered
             ELSE /\ website_info' = Info("offline", "Unavailable", "Unavailable", "Unavailable")
                  /\ pc' = "responded"
                  /\ rendered' = Template(NoScore, None, None, website_info', TRUE)
    /\ UNCHANGED <<raw, url, response, soup, urlparse_obj, domain, whois_response,
                   features, frame>>

\* fetch_url_details: socket.gethostbyname(full_domain)
DetailsResolve ==
    /\ pc = "details"
    /\ \E reply \in DetailsDnsReplies :
          /\ lastCall' = [call |-> "details_dns", reply |-> reply]
          /\ IF reply.kind = "ok"
             THEN /\ website_info' = Info("resolving", reply.ip, "Unavailable", "Unavailable")
                  /\ pc' = "details_geo"
             ELSE /\ website_info' = Info("offline", "Unavailable", "Unavailable", "Unavailable")
                  /\ pc' = "construct"
    /\ UNCHANGED <<raw, url, response, soup, urlparse_obj, domain, whois_response,
                   features, frame, rendered>>

\* fetch_url_details: requests.get(ip_api_url).json(); an exception reaches
\* the outer handler, which returns the "error" details
DetailsGeo ==
    /\ pc = "details_geo"
    /\ \E reply \in GeoReplies :
          /\ lastCall' = [call |-> "geo", reply |-> reply]
          /\ IF Blocks("geo", reply)
             THEN /\ pc' = "blocked"
                  /\ website_info' = website_info
             ELSE IF reply.kind = "ok"
             THEN /\ pc' = "details_whois"
                  /\ website_info' = [website_info EXCEPT !.location = reply.location]
             ELSE /\ pc' = "construct"
                  /\ website_info' = Info("error", "Unavailable", "Unavailable", "Unavailable")
    /\ UNCHANGED <<raw, url, response, soup, urlparse_obj, domain, whois_response,
                   features, frame, rendered>>

\* fetch_url_details: whois.whois(full_domain), then the "online" details
DetailsWhois ==
    /\ pc = "details_whois"
    /\ \E reply \in DetailsWhoisReplies :
          /\ lastCall' = [call |-> "details_whois", reply |-> reply]
          /\ website_info' = [website_info EXCEPT
                                 !.status = "online",
                                 !.asn = IF reply.kind = "ok" THEN reply.asn ELSE "N/A"]
    /\ pc' = "construct"
    /\ UNCHANGED <<raw, url, response, soup, urlparse_obj, domain, whois_response,
                   features, frame, rendered>>

\* __init__: requests.get(url, timeout=10) and BeautifulSoup(response.text)
Fetch(replies) ==
    /\ pc = "construct"
    /\ \E reply \in replies :
          /\ lastCall' = [call |-> "http", reply |-> reply]
          /\ ~Blocks("http", reply)
          /\ response' = IF reply.kind = "ok" THEN reply.response ELSE None
          /\ soup' = IF reply.kind = "ok" /\ reply.parses
                   THEN Some(reply.response.html) ELSE None
    /\ pc' = "ctor_parse"
    /\ UNCHANGED <<raw, url, website_info, urlparse_obj, domain, whois_response,
                   features, frame, rendered>>

CtorFetch == Fetch(HttpReplies)

\* __init__: urlparse(url) and .netloc, or neither when urlparse raises
CtorParse ==
    /\ pc = "ctor_parse"
    /\ IF UrlparseRaises(url)
       THEN UNCHANGED <<urlparse_obj, domain>>
       ELSE /\ urlparse_obj' = urlparse(url)
            /\ domain' = urlparse(url).netloc
    /\ pc' = "ctor_whois"
    /\ UNCHANGED <<raw, url, website_info, response, soup, whois_response,
                   features, lastCall, frame, rendered>>

\* __init__: whois.whois(self.domain)
WhoisLookup(replies) ==
    /\ pc = "ctor_whois"
    /\ \E reply \in replies :
          /\ lastCall' = [call |-> "whois", reply |-> reply]
          /\ whois_response' = IF reply.kind = "ok" THEN reply.record ELSE None
    /\ pc' = "features"
    /\ UNCHANGED <<raw, url, website_info, response, soup, urlparse_obj, domain,
                   features, frame, rendered>>

CtorWhois == WhoisLookup(WhoisReplies)

\* the indicator __init__ computes next, and where it goes after an append
NextIndicator == FeatureOrder[Len(features) + 1]
AfterAppend == IF Len(features) + 1 = Len(FeatureOrder) THEN "assemble" ELSE "features"

\* __init__: self.features.append(self.<indicator>()), no external call
AppendLocal ==
    /\ pc = "features"
    /\ NextIndicator \notin RemoteIndicators
    /\ features' = Append(features, Local(NextIndicator))
    /\ pc' = AfterAppend
    /\ UNCHANGED <<raw, url, website_info, response, soup, urlparse_obj, domain,
                   whois_response, lastCall, frame, rendered>>

\* __init__: self.features.append(self.WebsiteTraffic())
AppendWebsiteTraffic ==
    /\ pc = "features"
    /\ NextIndicator = "WebsiteTraffic"
    /\ \E reply \in TrafficReplies :
          /\ lastCall' = [call |-> "traffic", reply |-> reply]
          /\ IF Blocks("traffic", reply)
             THEN /\ pc' = "blocked"
                  /\ features' = features
             ELSE /\ pc' = AfterAppend
                  /\ features' = Append(features, WebsiteTraffic(reply))
    /\ UNCHANGED <<raw, url, website_info, response, soup, urlparse_obj, domain,
                   whois_response, frame, rendered>>

\* __init__: self.features.append(self.PageRank())
AppendPageRank ==
    /\ pc = "features"
    /\ NextIndicator = "PageRank"
    /\ \E reply \in PageRankReplies :
          /\ lastCall' = [call |-> "pagerank", reply |-> reply]
          /\ ~Blocks("pagerank", reply)
          /\ features' = Append(features, PageRank(reply))
    /\ pc' = AfterAppend
    /\ UNCHANGED <<raw, url, website_info, response, soup, urlparse_obj, domain,
                   whois_response, frame, rendered>>

\* __init__: self.features.append(self.GoogleIndex())
AppendGoogleIndex ==
    /\ pc = "features"
    /\ NextIndicator = "GoogleIndex"
    /\ \E reply \in GoogleReplies :
          /\ lastCall' = [call |-> "google", reply |-> reply]
          /\ features' = Append(features, GoogleIndex(reply))
    /\ pc' = AfterAppend
    /\ UNCHANGED <<raw, url, website_info, response, soup, urlparse_obj, domain,
                   whois_response, frame, rendered>>

\* __init__: self.features.append(self.StatsReport())
AppendStatsReport ==
    /\ pc = "features"
    /\ NextIndicator = "StatsReport"
    /\ \E reply \in StatsDnsReplies :
          /\ lastCall' = [call |-> "stats_dns", reply |-> reply]
          /\ features' = Append(features, StatsReport(reply))
    /\ pc' = AfterAppend
    /\ UNCHANGED <<raw, url, website_info, response, soup, urlparse_obj, domain,
                   whois_response, frame, rendered>>

\* index(): getFeaturesList(), reshape(1, 30), the dummy column and the frame;
\* reshape and DataFrame raise ValueError on a wrong width
Assemble ==
    /\ pc = "assemble"
    /\ LET features_list == features
           features_with_dummy == <<0>> \o features_list
       IN  IF Len(features_list) = 30 /\ Len(features_with_dummy) = Len(column_names)
           THEN /\ frame' = [features_df |-> [columns |-> column_names,
                                              row |-> features_with_dummy],
                             prediction |-> None,
                             pro_non_phishing |-> None]
                /\ pc' = "predict"
                /\ rendered' = rendered
           ELSE /\ frame' = frame
                /\ pc' = "responded"
                /\ rendered' = ErrorPage(website_info)
    /\ UNCHANGED <<raw, url, website_info, response, soup, urlparse_obj, domain,
                   whois_response, features, lastCall>>

\* index(): prediction = gbc.predict(features_df)[0]
Predict ==
    /\ pc = "predict"
    /\ \E reply \in PredictReplies :
          /\ lastCall' = [call |-> "predict", reply |-> reply]
          /\ IF reply.kind = "ok"
             THEN /\ frame' = [frame EXCEPT !.prediction = Some(reply.label)]
                  /\ pc' = "predict_proba"
                  /\ rendered' = rendered
             ELSE /\ frame' = frame
                  /\ pc' = "responded"
                  /\ rendered' = ErrorPage(website_info)
    /\ UNCHANGED <<raw, url, website_info, response, soup, urlparse_obj, domain,
                   whois_response, features>>

\* what index() renders once both classifier calls have returned
ScorePage(offline) ==
    Template(Round2(frame.pro_non_phishing.some), frame.prediction, None, website_info, offline)

\* index(): proba = gbc.predict_proba(features_df)[0], and the offline return
PredictProba ==
    /\ pc = "predict_proba"
    /\ \E reply \in ProbaReplies :
          /\ lastCall' = [call |-> "predict_proba", reply |-> reply]
          /\ IF reply.kind = "ok"
             THEN /\ frame' = [frame EXCEPT !.pro_non_phishing = Some(reply.p)]
                  /\ IF website_info.status = "offline"
                     THEN /\ pc' = "responded"
                          /\ rendered' = Template(Round2(reply.p), frame.prediction, None,
                                                  website_info, TRUE)
                     ELSE /\ pc' = "screenshot"
                          /\ rendered' = rendered
             ELSE /\ frame' = frame
                  /\ pc' = "responded"
                  /\ rendered' = ErrorPage(website_info)
    /\ UNCHANGED <<raw, url, website_info, response, soup, urlparse_obj, domain,
                   whois_response, features>>

\* index(): capture_screenshot(url), its failure only printed, and the return
Screenshot ==
    /\ pc = "screenshot"
    /\ \E reply \in {Ok([file |-> "static/screenshots"]), Error} :
          lastCall' = [call |-> "screenshot", reply |-> reply]
    /\ rendered' = ScorePage(FALSE)
    /\ pc' = "responded"
    /\ UNCHANGED <<raw, url, website_info, response, soup, urlparse_obj, domain,
                   whois_response, features, frame>>

Next ==
    \/ Get
    \/ Post
    \/ DetailsResolve
    \/ DetailsGeo
    \/ DetailsWhois
    \/ CtorFetch
    \/ CtorParse
    \/ CtorWhois
    \/ AppendLocal
    \/ AppendWebsiteTraffic
    \/ AppendPageRank
    \/ AppendGoogleIndex
    \/ AppendStatsReport
    \/ Assemble
    \/ Predict
    \/ PredictProba
    \/ Screenshot

Spec == Init /\ [][Next]_vars

(***************************************************************************)
(* FeatureExtraction(url) on its own, for the indicators that are pure     *)
(* functions of the URL: the object is built for URLs of every length up   *)
(* to the longest base plus MaxPad, with the network down (no response,    *)
(* no WHOIS record), and computes its 25 leading indicators.               *)
(***************************************************************************)
MaxPad == 90

RECURSIVE Pad(_)
Pad(n) == IF n = 0 THEN "" ELSE "a" \o Pad(n - 1)

LexBases ==
    {"1.2.3.4", "http://1.2.3.4/", "example.com/", "http://example.com/",
     "https://bit.ly/", "http://user@a-b.example.com//", "example.com:8080/",
     "HTTPS://www.https-example.com/"}

LexUrls == {base \o Pad(n) : base \in LexBases, n \in 0..MaxPad}

LexSubmit == Submit(LexUrls, "construct")
LexFetch  == Fetch({Error})
LexWhois  == WhoisLookup({Error})

LexNext == LexSubmit \/ LexFetch \/ CtorParse \/ LexWhois \/ AppendLocal

LexSpec == Init /\ [][LexNext]_vars

(***************************************************************************)
(* FeatureExtraction(url) on its own, for the indicators that read the     *)
(* DOM: the object is built for one site and every page of at most MaxTags *)
(* elements, and for the replies that leave no DOM.                        *)
(***************************************************************************)
MaxTags == 3

DomElements ==
    {Favicon_own, Img_own, Img_other, A_own, A_hash, Script_own, Script_other,
     Form_blank, Form_other, P_mail}

RECURSIVE PagesOf(_)
PagesOf(n) ==
    IF n = 0 THEN {<<>>}
    ELSE LET shorter == PagesOf(n - 1)
         IN  shorter \cup {Append(page, e) : page \in shorter, e \in DomElements}

DomUrls == {"http://example.com/login"}

DomHttpReplies ==
    {Ok([response |-> Resp(TRUE, 0, page), parses |-> TRUE]) : page \in PagesOf(MaxTags)}
        \cup {Ok([response |-> Resp(TRUE, 0, Page_login), parses |-> FALSE]), Error, Silent}

DomSubmit == Submit(DomUrls, "construct")
DomFetch  == Fetch(DomHttpReplies)

DomNext == DomSubmit \/ DomFetch \/ CtorParse \/ LexWhois \/ AppendLocal

DomSpec == Init /\ [][DomNext]_vars

(***************************************************************************)
(* Properties.                                                             *)
(***************************************************************************)
\* the request has left __init__ with its feature list complete
Extracted == pc \in {"assemble", "predict", "predict_proba", "screenshot"}

CalledLast(call) == lastCall # None /\ lastCall.call = call
FailedLast(call) == CalledLast(call) /\ lastCall.reply.kind # "ok"

\* C1: whatever the URL and whatever evidence is present, absent or failed,
\* every indicator FeatureExtraction has computed is -1, 0 or 1.
C1_Trinary == \A i \in 1..Len(features) : features[i] \in {-1, 0, 1}

\* C1 witness: a complete feature list computed with the HTTP fetch, the
\* WHOIS lookup and both DNS lookups failed.
C1_Witness ==
    /\ pc = "assemble"
    /\ Len(features) = 30
    /\ response = None /\ soup = None /\ whois_response = None
    /\ website_info.status = "offline"
    /\ FailedLast("stats_dns")

\* the indicator each column of the classifier's frame is named after
IndicatorOf ==
    [c \in {column_names[k] : k \in 2..Len(column_names)} |->
        CASE c = "UsingIP" -> "UsingIp"
          [] c = "LongURL" -> "longUrl"
          [] c = "ShortURL" -> "shortUrl"
          [] c = "Symbol@" -> "symbol"
          [] c = "Redirecting//" -> "redirecting"
          [] c = "PrefixSuffix-" -> "prefixSuffix"
          [] c = "HTTPS" -> "Https"
          [] OTHER -> c]

CallOf(name) ==
    CASE name = "WebsiteTraffic" -> "traffic"
      [] name = "PageRank" -> "pagerank"
      [] name = "GoogleIndex" -> "google"
      [] name = "StatsReport" -> "stats_dns"

Remote(name, reply) ==
    CASE name = "WebsiteTraffic" -> WebsiteTraffic(reply)
      [] name = "PageRank" -> PageRank(reply)
      [] name = "GoogleIndex" -> GoogleIndex(reply)
      [] name = "StatsReport" -> StatsReport(reply)

\* slot i of the feature list holds the value of the indicator that column
\* i + 1 is named after (for an indicator that calls a service: the value
\* it gives for the reply that service made, while that reply is the last)
SlotHoldsItsIndicator(i) ==
    LET name == IndicatorOf[column_names[i + 1]]
    IN  IF name \in RemoteIndicators
        THEN CalledLast(CallOf(name)) => features[i] = Remote(name, lastCall.reply)
        ELSE features[i] = Local(name)

\* C2: whichever fetchers failed, the finished feature list has exactly 30
\* values, slot i always holding the same named indicator (checked of each
\* slot when it is filled and of all slots when the list is complete), and
\* the frame given to the classifier is a 0 followed by those 30 values
\* under the 31 column names, each value under the name of its indicator.
C2_FixedOrder ==
    /\ Extracted => Len(features) = 30
    /\ Len(features) <= 30
    /\ (pc = "features" /\ features # <<>>) => SlotHoldsItsIndicator(Len(features))
    /\ pc = "assemble" => \A i \in 1..Len(features) : SlotHoldsItsIndicator(i)
    /\ frame # None =>
          /\ frame.features_df.columns = column_names
          /\ Len(frame.features_df.row) = 31
          /\ frame.features_df.row[1] = 0
          /\ frame.features_df.columns[1] = "Index"
          /\ \A i \in 1..30 : frame.features_df.row[i + 1] = features[i]

\* C2 witness: the frame built for a request whose HTTP fetch failed and
\* whose WHOIS lookup succeeded.
C2_Witness ==
    /\ pc = "predict"
    /\ frame # None
    /\ response = None
    /\ whois_response # None

\* the request has been answered and fetch_url_details found the domain
\* unresolvable
AnsweredOffline ==
    /\ pc = "responded"
    /\ website_info # None
    /\ website_info.status = "offline"

\* C3 as stated: whenever DNS resolution of the registered domain fails, the
\* response carries status "offline" together with a classification label
\* and a legitimacy probability.
C3_OfflineAlwaysScored ==
    AnsweredOffline =>
        /\ rendered.website_info.status = "offline"
        /\ rendered.prediction # None
        /\ rendered.xx \in 0..100

\* C3 amended: whenever DNS resolution of the registered domain fails, the
\* request still goes through the whole feature extraction and calls the
\* classifier, and the response carries status "offline"; it carries the
\* label and the legitimacy probability whenever both classifier calls
\* return, and is the error result (no label, no probability) when one of
\* them raises.
C3_OfflineStillScored ==
    AnsweredOffline =>
        /\ Len(features) = 30
        /\ frame # None
        /\ rendered.website_info.status = "offline"
        /\ \/ /\ CalledLast("predict_proba") /\ lastCall.reply.kind = "ok"
              /\ rendered.is_offline
              /\ rendered.prediction # None
              /\ rendered.prediction = frame.prediction
              /\ rendered.xx = Round2(lastCall.reply.p)
              /\ rendered.xx \in 0..100
           \/ /\ FailedLast("predict") \/ FailedLast("predict_proba")
              /\ rendered = ErrorPage(website_info)

\* C3 witness: an unresolvable domain answered with its score.
C3_Witness ==
    /\ AnsweredOffline
    /\ rendered.is_offline
    /\ rendered.prediction = Some(-1)
    /\ rendered.xx = 98

\* the slot of an indicator in the feature list
SlotOf(name) == CHOOSE i \in 1..Len(FeatureOrder) : FeatureOrder[i] = name

\* feature extraction has just finished for a domain that no DNS lookup of
\* the request resolved: neither fetch_url_details' nor StatsReport's
ExtractedUnresolvable ==
    /\ pc = "assemble"
    /\ website_info.status = "offline"
    /\ FailedLast("stats_dns")

\* C4 as stated: for every request whose domain DNS cannot resolve,
\* reachability is "offline", the age-of-domain and registration-length
\* indicators are both -1, the static-blacklist indicator is +1, and the
\* request is not aborted (its 30 indicators are all computed).
C4_UnresolvableDefaults ==
    ExtractedUnresolvable =>
        /\ Len(features) = 30
        /\ features[SlotOf("AgeofDomain")] = -1
        /\ features[SlotOf("DomainRegLen")] = -1
        /\ features[SlotOf("StatsReport")] = 1

\* C4 amended: for every request whose domain DNS cannot resolve,
\* reachability is "offline", the static-blacklist indicator is +1 and the
\* request is not aborted; the age-of-domain and registration-length
\* indicators are -1 when the WHOIS lookup fails as well.  They are computed
\* from the WHOIS record alone: a record obtained for an unresolvable domain
\* gives them the value its dates give.
C4_UnresolvableDefaultsGivenNoWhois ==
    ExtractedUnresolvable =>
        /\ Len(features) = 30
        /\ features[SlotOf("StatsReport")] = 1
        /\ whois_response = None =>
              /\ features[SlotOf("AgeofDomain")] = -1
              /\ features[SlotOf("DomainRegLen")] = -1
        /\ features[SlotOf("AgeofDomain")] = AgeofDomain
        /\ features[SlotOf("DomainRegLen")] = DomainRegLen

\* C4 witness: extraction finished with DNS and WHOIS both failing, for a
\* URL that matches a blacklisted pattern.
C4_Witness ==
    /\ ExtractedUnresolvable
    /\ whois_response = None
    /\ url = "https://foo.esy.es/a-b"
    /\ features[30] = 1

\* C5: when gbc.predict or gbc.predict_proba raises, the request ends with
\* the error result: an error message, no label, and the sentinel -1 where
\* the probability goes; and a response that carries a probability is
\* rendered only after both classifier calls returned for this request, and
\* carries what they returned.
C5_ClassifierFailureIsExplicit ==
    pc = "responded" =>
        /\ (FailedLast("predict") \/ FailedLast("predict_proba")) =>
              /\ rendered.kind = "page"
              /\ rendered.error # None
              /\ rendered.prediction = None
              /\ rendered.xx = NoScore
        /\ (rendered.kind = "page" /\ rendered.xx # NoScore) =>
              /\ frame # None
              /\ frame.prediction # None
              /\ frame.pro_non_phishing # None
              /\ ~FailedLast("predict") /\ ~FailedLast("predict_proba")
              /\ rendered.error = None
              /\ rendered.prediction = frame.prediction
              /\ rendered.xx = Round2(frame.pro_non_phishing.some)
              /\ rendered.xx \in 0..100

\* C5 witness: predict returned a label, predict_proba raised, and the
\* request was answered with the error result.
C5_Witness ==
    /\ pc = "responded"
    /\ FailedLast("predict_proba")
    /\ frame.prediction = Some(1)
    /\ rendered.xx = NoScore
    /\ rendered.prediction = None

\* the indicators that read each source of evidence
ReadsDom      == {"Favicon", "RequestURL", "AnchorURL", "LinksInScriptTags",
                  "ServerFormHandler", "InfoEmail"}
ReadsResponse == {"AbnormalURL", "WebsiteForwarding", "StatusBarCust",
                  "DisableRightClick", "UsingPopupWindow", "IframeRedirection",
                  "LinksPointingToPage"}
ReadsWhois    == {"DomainRegLen", "AbnormalURL", "AgeofDomain", "DNSRecording"}

\* the indicator of a reputation service has just been computed from a call
\* that failed
JustFailed(name) ==
    /\ Len(features) = SlotOf(name)
    /\ FailedLast(CallOf(name))

\* the value every indicator in names has in the feature list
AllAre(names, v) ==
    \A name \in names : Len(features) >= SlotOf(name) => features[SlotOf(name)] = v

\* C6 as stated: when a source of evidence is absent, every indicator that
\* depends on it is -1, except GoogleIndex and StatsReport, which are +1.
C6_AbsentEvidenceDefaults ==
    /\ (pc \in {"features", "assemble"} /\ soup = None) => AllAre(ReadsDom, -1)
    /\ (pc \in {"features", "assemble"} /\ response = None) => AllAre(ReadsResponse, -1)
    /\ (pc \in {"features", "assemble"} /\ whois_response = None) => AllAre(ReadsWhois, -1)
    /\ JustFailed("WebsiteTraffic") => features[SlotOf("WebsiteTraffic")] = -1
    /\ JustFailed("PageRank") => features[SlotOf("PageRank")] = -1
    /\ JustFailed("GoogleIndex") => features[SlotOf("GoogleIndex")] = 1
    /\ JustFailed("StatsReport") => features[SlotOf("StatsReport")] = 1

\* what the code does instead: the same, with InfoEmail a third indicator
\* that is +1 for want of evidence
C6_AbsentEvidenceDefaultsButInfoEmail ==
    /\ (pc \in {"features", "assemble"} /\ soup = None) =>
          /\ AllAre(ReadsDom \ {"InfoEmail"}, -1)
          /\ AllAre({"InfoEmail"}, 1)
    /\ (pc \in {"features", "assemble"} /\ response = None) => AllAre(ReadsResponse, -1)
    /\ (pc \in {"features", "assemble"} /\ whois_response = None) => AllAre(ReadsWhois, -1)
    /\ JustFailed("WebsiteTraffic") => features[SlotOf("WebsiteTraffic")] = -1
    /\ JustFailed("PageRank") => features[SlotOf("PageRank")] = -1
    /\ JustFailed("GoogleIndex") => features[SlotOf("GoogleIndex")] = 1
    /\ JustFailed("StatsReport") => features[SlotOf("StatsReport")] = 1

\* C6 witness: the HTTP fetch failed and InfoEmail has been computed
C6_Witness ==
    /\ pc = "features"
    /\ response = None /\ soup = None
    /\ Len(features) = SlotOf("InfoEmail")
    /\ features[SlotOf("InfoEmail")] = 1

\* C7 as stated: no external call that is never answered keeps the request
\* from being answered: a silent service is cut off by a timeout and the
\* request goes on with the fallback value.
C7_NoCallBlocksForever == pc # "blocked"

\* the calls the code does bound are cut off: after a silent HTTP fetch or
\* page-rank lookup the request goes on
C7_BoundedCallsGoOn ==
    (lastCall # None /\ lastCall.reply = Silent /\ HasTimeout[lastCall.call]) =>
        pc # "blocked"

\* C7 witness: the traffic-rank service never answers and the request is
\* stuck in urlopen, its feature list short of WebsiteTraffic
C7_Witness ==
    /\ pc = "blocked"
    /\ lastCall = [call |-> "traffic", reply |-> Silent]
    /\ Len(features) = SlotOf("WebsiteTraffic") - 1
    /\ rendered = None

\* C10 as stated: the IP-literal indicator of the normalized URL is -1 when
\* the URL's host is a raw IP address and 1 otherwise.
C10_IpHostFlagged ==
    (Len(features) >= 1 /\ urlparse_obj # None) =>
        features[SlotOf("UsingIp")] = IF inet_aton(urlparse_obj.netloc) THEN -1 ELSE 1

\* what the code does instead: inet_aton is given the whole URL, which has
\* a scheme after validate_url, so the indicator is 1 for every request
C10_NeverFlagged == Len(features) >= 1 => features[SlotOf("UsingIp")] = 1

\* C10 witness: "http://1.2.3.4/login" submitted, its host an IP address,
\* its indicator 1
C10_Witness ==
    /\ Len(features) >= 1
    /\ raw = "http://1.2.3.4/login"
    /\ urlparse_obj # None
    /\ inet_aton(urlparse_obj.netloc)
    /\ features[1] = 1

\* C8: for every URL the extractor is given, the long-URL indicator is 1
\* when the URL is shorter than 60 characters, 0 from 60 to 100 characters
\* inclusive, and -1 above 100; lengths 59, 60, 100, 101 give 1, 0, 0, -1.
C8_LongUrlBoundaries ==
    Len(features) >= SlotOf("longUrl") =>
        /\ features[SlotOf("longUrl")] =
              (IF Len(url) < 60 THEN 1 ELSE IF Len(url) <= 100 THEN 0 ELSE -1)
        /\ Len(url) = 59 => features[SlotOf("longUrl")] = 1
        /\ Len(url) = 60 => features[SlotOf("longUrl")] = 0
        /\ Len(url) = 100 => features[SlotOf("longUrl")] = 0
        /\ Len(url) = 101 => features[SlotOf("longUrl")] = -1

\* C8 witness: a URL of exactly 60 characters, scored 0
C8_Witness ==
    /\ Len(features) >= SlotOf("longUrl")
    /\ Len(url) = 60
    /\ features[SlotOf("longUrl")] = 0

\* the tags each ratio indicator counts
CountedTags ==
    [RequestURL        |-> {"img", "audio", "embed", "iframe"},
     AnchorURL         |-> {"a"},
     LinksInScriptTags |-> {"script", "link"}]

\* the page has a DOM with no tag of the given kinds
DomWithout(tags) ==
    /\ soup # None
    /\ \A i \in DOMAIN soup.some : soup.some[i].tag \notin tags

\* C9: a ratio indicator computed over a DOM that has none of the tags it
\* counts is 1 (a ratio of 0%), and is the -1 fallback when there is no DOM.
C9_ZeroDenominatorIsOne ==
    \A name \in DOMAIN CountedTags :
        Len(features) >= SlotOf(name) =>
            /\ DomWithout(CountedTags[name]) => features[SlotOf(name)] = 1
            /\ soup = None => features[SlotOf(name)] = -1

\* C9 witness: a fetched page with a form and a paragraph only, no anchor,
\* no media and no script or link tag, and the three ratio indicators 1
C9_Witness ==
    /\ Len(features) >= SlotOf("LinksInScriptTags")
    /\ soup = Some(<<Form_other, P_mail>>)
    /\ features[SlotOf("RequestURL")] = 1
    /\ features[SlotOf("AnchorURL")] = 1
    /\ features[SlotOf("LinksInScriptTags")] = 1

\* the src values RequestURL counts, and how many of them point off-site
\* (contain neither the site's URL nor its domain)
CountedSrc == FindAll(soup.some, CountedTags.RequestURL, "src")
OffSite == Len(SelectSeq(CountedSrc, LAMBDA e : ~OwnSite(e.val)))

\* RequestURL has been computed over a DOM with at least one counted src
RequestURLDecided ==
    /\ Len(features) >= SlotOf("RequestURL")
    /\ soup # None
    /\ CountedSrc # <<>>

\* C11 as stated: with a DOM present and at least one img/audio/embed/iframe
\* src, the external-resource indicator is 1 when fewer than 22% of those
\* src values point off-site, 0 from 22% up to 61%, and -1 above; a page
\* whose resources are all on-site gives 1, one whose resources are all
\* off-site gives -1.
C11_OffSiteFractionDecides ==
    RequestURLDecided =>
        /\ features[SlotOf("RequestURL")] =
              (IF OffSite * 100 < 22 * Len(CountedSrc) THEN 1
               ELSE IF OffSite * 100 < 61 * Len(CountedSrc) THEN 0
               ELSE -1)
        /\ OffSite = 0 => features[SlotOf("RequestURL")] = 1
        /\ OffSite = Len(CountedSrc) => features[SlotOf("RequestURL")] = -1

\* what the code does instead: the thresholds are applied to the fraction
\* of src values that point on-site
C11_OnSiteFractionDecides ==
    RequestURLDecided =>
        LET on_site == Len(CountedSrc) - OffSite
        IN  features[SlotOf("RequestURL")] =
               (IF on_site * 100 < 22 * Len(CountedSrc) THEN 1
                ELSE IF on_site * 100 < 61 * Len(CountedSrc) THEN 0
                ELSE -1)

\* C11 witness: a page whose only counted resource is the site's own logo,
\* scored -1
C11_Witness ==
    /\ RequestURLDecided
    /\ soup = Some(<<Img_own>>)
    /\ OffSite = 0
    /\ features[SlotOf("RequestURL")] = -1

\* StatsReport has just been computed; its DNS reply is the last call
StatsReportDecided ==
    /\ pc = "assemble"
    /\ Len(features) = SlotOf("StatsReport")
    /\ CalledLast("stats_dns")

UrlListed == \E pat \in BadUrlPatterns : Contains(url, pat)
IpListed ==
    /\ lastCall.reply.kind = "ok"
    /\ \E pat \in BadAddresses : Contains(lastCall.reply.ip, pat)

\* C12 as stated: for every URL and DNS outcome the static-blacklist
\* indicator is -1 whenever the URL matches a known malicious pattern or the
\* resolved address matches a known malicious address, and 1 otherwise; a
\* URL match gives -1 whether or not the domain resolves.
C12_MatchWinsOverLookupFailure ==
    StatsReportDecided =>
        features[SlotOf("StatsReport")] = IF UrlListed \/ IpListed THEN -1 ELSE 1

\* C12 amended: when the domain resolves, the static-blacklist indicator is
\* -1 if the URL matches a known malicious pattern or the resolved address
\* matches a known malicious address, and 1 if neither does; when the lookup
\* fails it is 1 whatever the URL, a URL match included.
C12_LookupFailureWinsOverMatch ==
    StatsReportDecided =>
        /\ lastCall.reply.kind = "ok" =>
              features[SlotOf("StatsReport")] = IF UrlListed \/ IpListed THEN -1 ELSE 1
        /\ lastCall.reply.kind # "ok" => features[SlotOf("StatsReport")] = 1

\* C12 witness: the resolved address is on the list, the URL is not, and
\* the indicator is -1
C12_Witness ==
    /\ StatsReportDecided
    /\ ~UrlListed
    /\ IpListed
    /\ features[SlotOf("StatsReport")] = -1

====
